---- MODULE Spec2Model ----
(***************************************************************************)
(* Model of task/t1/no_grounding.py: a user query is fanned out over       *)
(* batches of user records to a chat model with asyncio.gather, the        *)
(* per-batch answers are filtered on the NO_MATCHES_FOUND sentinel and,    *)
(* if any remain, merged by one final model call.  A process-wide          *)
(* TokenTracker records the token usage of every model call.               *)
(*                                                                         *)
(* Texts are sequences of tokens; the tokens " " and "\n" are whitespace,  *)
(* every other token stands for a run of non-whitespace characters.        *)
(***************************************************************************)
EXTENDS Integers, Sequences, FiniteSets, TLC

\* ---------------------------------------------------------------- bounds
MaxUsers == 3
MaxListLen == 4
MaxBatchSize == 3

\* ------------------------------------------------------------- constants
Sentinel == "NO_MATCHES_FOUND"
Whitespace == {" ", "\n"}
BATCH_SYSTEM_PROMPT == "BATCH_SYSTEM_PROMPT"
FINAL_SYSTEM_PROMPT == "FINAL_SYSTEM_PROMPT"
NoUsersMessage == "No users found matching the search criteria."
SearchingMessage == "--- Searching user database ---"
SummaryMessage == "--- Token Usage Summary ---"

\* Names of the records the UserClient can return, in database order.
UserPool == <<"anna", "ben", "cara", "dan", "eve", "finn", "gus">>

\* What the operator can type at the prompt (before .strip()).
TypedQueries ==
  { <<>>, <<" ">>, <<" ", "\n">>, <<"john">>, <<" ", "john", " ">> }

\* What the model endpoint can answer to a call: a text and the response
\* metadata, which may lack 'token_usage' or its 'total_tokens'.
Responses ==
  { [content |-> <<Sentinel>>,
     response_metadata |-> [model_name |-> "gpt-4o",
                            token_usage |-> [total_tokens |-> 120]]],
    [content |-> <<" ", Sentinel, "\n">>,
     response_metadata |-> [model_name |-> "gpt-4o"]],
    [content |-> <<"Jane,", " ", "age", " ", "30">>,
     response_metadata |-> [model_name |-> "gpt-4o",
                            token_usage |-> [total_tokens |-> 80]]],
    [content |-> <<Sentinel, " ", "maybe">>,
     response_metadata |-> [model_name |-> "gpt-4o",
                            token_usage |-> [prompt_tokens |-> 7]]] }

\* ------------------------------------------------------------- variables
VARIABLES
  pc,               \* position of main(): start, awaiting, final, done, error
  db,               \* the records UserClient().get_all_users() returns
  batch_size,       \* main's batch_size
  typed,            \* the line read by input()
  user_question,    \* typed.strip()
  fetched,          \* whether get_all_users() was called
  users,            \* main's users
  user_batches,     \* main's user_batches
  tasks,            \* the batch coroutines handed to asyncio.gather
  arrival,          \* batch indices in the order their calls returned
  gather,           \* state of the gather future: none, pending, result, exception
  batch_result,     \* main's batch_result
  filtered_results, \* main's filtered_results
  calls,            \* the requests received by the model endpoint, in order
  token_tracker,    \* the global TokenTracker
  adds,             \* the token counts passed to add_tokens, in call order
  printed,          \* main's messages on standard output, in order
  summary           \* the usage summary main printed

vars == <<pc, db, batch_size, typed, user_question, fetched, users,
          user_batches, tasks, arrival, gather, batch_result,
          filtered_results, calls, token_tracker, adds, printed, summary>>

\* --------------------------------------------------------------- helpers
Min(a, b) == IF a < b THEN a ELSE b

RECURSIVE Sum(_)
Sum(s) == IF s = <<>> THEN 0 ELSE Head(s) + Sum(Tail(s))

RECURSIVE Flatten(_)
Flatten(ss) == IF ss = <<>> THEN <<>> ELSE Head(ss) \o Flatten(Tail(ss))

\* str.strip(): drop leading and trailing whitespace.
RECURSIVE LStrip(_)
LStrip(s) ==
  IF s # <<>> /\ Head(s) \in Whitespace THEN LStrip(Tail(s)) ELSE s

RECURSIVE RStrip(_)
RStrip(s) ==
  IF s # <<>> /\ s[Len(s)] \in Whitespace
  THEN RStrip(SubSeq(s, 1, Len(s) - 1))
  ELSE s

Strip_None(s) == s

Strip(s) == RStrip(LStrip(s))

\* sep.join(parts)
RECURSIVE Join(_, _)
Join(sep, parts) ==
  IF parts = <<>> THEN <<>>
  ELSE IF Len(parts) = 1 THEN parts[1]
  ELSE parts[1] \o sep \o Join(sep, Tail(parts))

\* users[i:j] with 0 <= i <= j (Python slice, clipped at the end of the list)
Slice(s, i, j) == SubSeq(s, i + 1, Min(j, Len(s)))

\* range(0, n, step) as the ascending sequence of its members
RangeStep(n, step) == [k \in 1..((n + step - 1) \div step) |-> (k - 1) * step]

\* --------------------------------------------------------------- Batcher
SplitBatches_DropPartial(us, bs) ==
  [k \in 1..(Len(us) \div bs) |-> Slice(us, (k - 1) * bs, (k - 1) * bs + bs)]

\* [users[i:i + batch_size] for i in range(0, len(users), batch_size)]
SplitBatches(us, bs) ==
  LET starts == RangeStep(Len(us), bs)
  IN  [k \in 1..Len(starts) |-> Slice(us, starts[k], starts[k] + bs)]

\* ------------------------------------------------------ ContextFormatter
join_context(context) ==
  IF context = <<>> THEN <<"No user data available.">>
  ELSE Join(<<"\n">>,
            Flatten([k \in 1..Len(context) |->
                       << <<"User:">>,
                          <<" ", " ", "name:", " ", context[k]>> >>]))

\* USER_PROMPT.format(context=..., query=...)
USER_PROMPT(context, query) ==
  <<"## USER DATA:", "\n">> \o context \o
  <<"\n", "\n", "## SEARCH QUERY: ", "\n">> \o query

FinalPrompt(combined_results, query) ==
  <<"## SEARCH RESULTS:", "\n">> \o combined_results \o
  <<"\n", "\n", "## ORIGINAL QUERY:", "\n">> \o query

\* ---------------------------------------------------------- TokenTracker
NewTokenTracker == [total_tokens |-> 0, batch_tokens |-> <<>>]

add_tokens_NoAppend(tt, tokens) ==
  [tt EXCEPT !.total_tokens = @ + tokens]

add_tokens(tt, tokens) ==
  [total_tokens |-> tt.total_tokens + tokens,
   batch_tokens |-> Append(tt.batch_tokens, tokens)]

get_summary(tt) ==
  [total_tokens |-> tt.total_tokens,
   batch_count  |-> Len(tt.batch_tokens),
   batch_tokens |-> tt.batch_tokens]

\* response.response_metadata.get('token_usage', {}).get('total_tokens', 0)
TokenUsage(response) ==
  LET md == response.response_metadata
  IN  IF "token_usage" \in DOMAIN md
      THEN IF "total_tokens" \in DOMAIN md.token_usage
           THEN md.token_usage.total_tokens
           ELSE 0
      ELSE 0

\* ------------------------------------------------- asyncio.gather(*tasks)
NewTask(message) == [st |-> "scheduled", user_message |-> message, result |-> <<>>]

Batches == DOMAIN tasks

StOf(ts, state) == {i \in DOMAIN ts : ts[i].st = state}

\* The steps the event loop can run next.  gather schedules every coroutine
\* at once and the loop runs its ready queue in FIFO order before it polls
\* for I/O: each call is started, in batch order, before any response is
\* delivered, and there is no limit on the calls in flight.
Runnable_Limited(ts) ==
  {<<"start", i>> : i \in {j \in StOf(ts, "scheduled") :
                              /\ StOf(ts, "inflight") = {}
                              /\ \A k \in StOf(ts, "scheduled") : j <= k}}
  \cup {<<"finish", i>> : i \in StOf(ts, "inflight")}

Runnable(ts) ==
  IF StOf(ts, "scheduled") # {}
  THEN {<<"start", i>> : i \in {j \in StOf(ts, "scheduled") :
                                  \A k \in StOf(ts, "scheduled") : j <= k}}
  ELSE {<<"finish", i>> : i \in StOf(ts, "inflight")}

\* A batch coroutine raised: gather marks nothing but that child; the
\* other children keep running.
OnTaskException_CancelSiblings(ts, i) ==
  [j \in DOMAIN ts |->
     IF j = i THEN [ts[j] EXCEPT !.st = "failed"]
     ELSE IF ts[j].st = "inflight" THEN [ts[j] EXCEPT !.st = "cancelled"]
     ELSE ts[j]]

OnTaskException(ts, i) == [ts EXCEPT ![i].st = "failed"]

\* State of the gather future after a child finished (return_exceptions is
\* False): the first exception is set on it at once, the result list only
\* when every child has returned.
GatherOutcome_FirstCompleted(g, ts) ==
  IF g # "pending" THEN g
  ELSE IF StOf(ts, "failed") # {} THEN "exception"
  ELSE IF StOf(ts, "done") # {} \/ DOMAIN ts = {} THEN "result"
  ELSE "pending"

GatherOutcome_ReturnExceptions(g, ts) ==
  IF g # "pending" THEN g
  ELSE IF \A i \in DOMAIN ts : ts[i].st \in {"done", "failed"} THEN "result"
  ELSE "pending"

GatherOutcome(g, ts) ==
  IF g # "pending" THEN g
  ELSE IF StOf(ts, "failed") # {} THEN "exception"
  ELSE IF \A i \in DOMAIN ts : ts[i].st = "done" THEN "result"
  ELSE "pending"

\* The list gather returns: the children's results by position.
GatherResults_ByArrival(ts, arr) == [k \in 1..Len(arr) |-> arr[k].content]

GatherResults(ts, arr) == [i \in DOMAIN ts |-> ts[i].result]

\* asyncio.run's shutdown cancels every task that is still pending.
CancelAllTasks(ts) ==
  [i \in DOMAIN ts |->
     IF ts[i].st \in {"scheduled", "inflight"}
     THEN [ts[i] EXCEPT !.st = "cancelled"]
     ELSE ts[i]]

\* ------------------------------------------------------ ResultAggregator
RECURSIVE FilterResults_NoStrip(_)
FilterResults_NoStrip(results) ==
  IF results = <<>> THEN <<>>
  ELSE (IF Head(results) # <<Sentinel>> THEN <<Head(results)>> ELSE <<>>)
       \o FilterResults_NoStrip(Tail(results))

\* [res for res in batch_result if res.strip() != 'NO_MATCHES_FOUND']
RECURSIVE FilterResults(_)
FilterResults(results) ==
  IF results = <<>> THEN <<>>
  ELSE (IF Strip(Head(results)) # <<Sentinel>> THEN <<Head(results)>> ELSE <<>>)
       \o FilterResults(Tail(results))

BatchCall(message) ==
  [system_prompt |-> BATCH_SYSTEM_PROMPT, user_message |-> message]

FinalCall(results, query) ==
  [system_prompt |-> FINAL_SYSTEM_PROMPT,
   user_message  |-> FinalPrompt(Join(<<"\n", "\n">>, results), query)]

\* ----------------------------------------------------------------- Init
InitRest ==
  /\ pc = "start"
  /\ typed = <<>>
  /\ user_question = <<>>
  /\ fetched = FALSE
  /\ users = <<>>
  /\ user_batches = <<>>
  /\ tasks = <<>>
  /\ arrival = <<>>
  /\ gather = "none"
  /\ batch_result = <<>>
  /\ filtered_results = <<>>
  /\ calls = <<>>
  /\ token_tracker = NewTokenTracker
  /\ adds = <<>>
  /\ printed = <<>>
  /\ summary = get_summary(NewTokenTracker)

Init ==
  /\ db \in {SubSeq(UserPool, 1, n) : n \in 0..MaxUsers}
  /\ batch_size \in 1..MaxBatchSize
  /\ InitRest

\* -------------------------------------------------------------- actions
\* main() up to its first suspension: read the query and, unless it is
\* blank, fetch the users, split them, build one coroutine per batch and
\* hand them all to asyncio.gather.
MainStart ==
  /\ pc = "start"
  /\ \E line \in TypedQueries :
       LET q == Strip(line)
           bs == SplitBatches(db, batch_size)
           ts == [k \in 1..Len(bs) |-> NewTask(USER_PROMPT(join_context(bs[k]), q))]
       IN  /\ typed' = line
           /\ user_question' = q
           /\ IF q # <<>>
              THEN /\ printed' = Append(printed, SearchingMessage)
                   /\ fetched' = TRUE
                   /\ users' = db
                   /\ user_batches' = bs
                   /\ tasks' = ts
                   /\ gather' = GatherOutcome("pending", ts)
                   /\ pc' = "awaiting"
              ELSE /\ pc' = "done"
                   /\ UNCHANGED <<printed, fetched, users, user_batches, tasks, gather>>
  /\ UNCHANGED <<db, batch_size, arrival, batch_result, filtered_results,
                 calls, token_tracker, adds, summary>>

\* generate_response up to `await client.ainvoke(messages)`: the request
\* of batch i is issued.
StartCall(i) ==
  /\ pc = "awaiting"
  /\ <<"start", i>> \in Runnable(tasks)
  /\ tasks' = [tasks EXCEPT ![i].st = "inflight"]
  /\ calls' = Append(calls, BatchCall(tasks[i].user_message))
  /\ UNCHANGED <<pc, db, batch_size, typed, user_question, fetched, users,
                 user_batches, arrival, gather, batch_result,
                 filtered_results, token_tracker, adds, printed, summary>>

\* The response of batch i arrives: generate_response records its usage
\* and returns its content.
CompleteCall(i) ==
  /\ pc = "awaiting"
  /\ <<"finish", i>> \in Runnable(tasks)
  /\ \E response \in Responses :
       LET token_usage == TokenUsage(response)
           ts == [tasks EXCEPT ![i].st = "done", ![i].result = response.content]
       IN  /\ token_tracker' = add_tokens(token_tracker, token_usage)
           /\ adds' = Append(adds, token_usage)
           /\ arrival' = Append(arrival, [batch |-> i, content |-> response.content])
           /\ tasks' = ts
           /\ gather' = GatherOutcome(gather, ts)
  /\ UNCHANGED <<pc, db, batch_size, typed, user_question, fetched, users,
                 user_batches, batch_result, filtered_results, calls,
                 printed, summary>>

\* client.ainvoke raises in the call of batch i (transport or model error).
FailCall(i) ==
  /\ pc = "awaiting"
  /\ <<"finish", i>> \in Runnable(tasks)
  /\ LET ts == OnTaskException(tasks, i)
     IN  /\ tasks' = ts
         /\ gather' = GatherOutcome(gather, ts)
  /\ UNCHANGED <<pc, db, batch_size, typed, user_question, fetched, users,
                 user_batches, arrival, batch_result, filtered_results,
                 calls, token_tracker, adds, printed, summary>>

\* main() resumes from `await asyncio.gather(*tasks)` with the result list.
MainResume ==
  /\ pc = "awaiting"
  /\ gather = "result"
  /\ LET br == GatherResults(tasks, arrival)
         fr == FilterResults(br)
     IN  /\ batch_result' = br
         /\ filtered_results' = fr
         /\ IF fr # <<>>
            THEN /\ calls' = Append(calls, FinalCall(fr, user_question))
                 /\ pc' = "final"
                 /\ UNCHANGED <<printed, summary>>
            ELSE /\ printed' = printed \o <<NoUsersMessage, SummaryMessage>>
                 /\ summary' = get_summary(token_tracker)
                 /\ pc' = "done"
                 /\ UNCHANGED calls
  /\ UNCHANGED <<db, batch_size, typed, user_question, fetched, users,
                 user_batches, tasks, arrival, gather, token_tracker, adds>>

\* The exception of a batch call is raised at `await asyncio.gather`; main
\* does not catch it, and asyncio.run cancels what is still running.
MainAbort ==
  /\ pc = "awaiting"
  /\ gather = "exception"
  /\ tasks' = CancelAllTasks(tasks)
  /\ pc' = "error"
  /\ UNCHANGED <<db, batch_size, typed, user_question, fetched, users,
                 user_batches, arrival, gather, batch_result,
                 filtered_results, calls, token_tracker, adds, printed,
                 summary>>

\* The final call returns: its usage is recorded and main prints the summary.
FinalComplete ==
  /\ pc = "final"
  /\ \E response \in Responses :
       LET token_usage == TokenUsage(response)
           tt == add_tokens(token_tracker, token_usage)
       IN  /\ token_tracker' = tt
           /\ adds' = Append(adds, token_usage)
           /\ summary' = get_summary(tt)
  /\ printed' = Append(printed, SummaryMessage)
  /\ pc' = "done"
  /\ UNCHANGED <<db, batch_size, typed, user_question, fetched, users,
                 user_batches, tasks, arrival, gather, batch_result,
                 filtered_results, calls>>

\* The final call raises: the exception leaves main.
FinalFail ==
  /\ pc = "final"
  /\ pc' = "error"
  /\ UNCHANGED <<db, batch_size, typed, user_question, fetched, users,
                 user_batches, tasks, arrival, gather, batch_result,
                 filtered_results, calls, token_tracker, adds, printed,
                 summary>>

Next ==
  \/ MainStart
  \/ \E i \in Batches : StartCall(i)
  \/ \E i \in Batches : CompleteCall(i)
  \/ \E i \in Batches : FailCall(i)
  \/ MainResume
  \/ MainAbort
  \/ FinalComplete
  \/ FinalFail

Spec == Init /\ [][Next]_vars

\* ------------------------------------------- the Batcher on its own
InitBatcher ==
  /\ db \in UNION {[1..n -> {UserPool[1], UserPool[2]}] : n \in 0..MaxListLen}
  /\ batch_size \in 1..MaxBatchSize
  /\ InitRest

\* Lines 118-121 of main(): fetch the users and split them.
RunBatcher ==
  /\ pc = "start"
  /\ fetched' = TRUE
  /\ users' = db
  /\ user_batches' = SplitBatches(db, batch_size)
  /\ pc' = "split"
  /\ UNCHANGED <<db, batch_size, typed, user_question, tasks, arrival,
                 gather, batch_result, filtered_results, calls,
                 token_tracker, adds, printed, summary>>

NextBatcher == RunBatcher

SpecBatcher == InitBatcher /\ [][NextBatcher]_vars

\* ------------------------------------------------------------ properties
IsBlank(s) == \A k \in 1..Len(s) : s[k] \in Whitespace

\* The text is the sentinel, possibly surrounded by whitespace.
IsSentinelText(s) ==
  \E k \in 1..Len(s) :
    /\ s[k] = Sentinel
    /\ \A j \in 1..Len(s) : j # k => s[j] \in Whitespace

NonSentinel(s) == ~IsSentinelText(s)

Printed(m) == \E k \in 1..Len(printed) : printed[k] = m

SynthCalls ==
  Cardinality({k \in 1..Len(calls) : calls[k].system_prompt = FINAL_SYSTEM_PROMPT})

BatchCallsFor(i) ==
  Cardinality({k \in 1..Len(calls) :
                 calls[k] = BatchCall(USER_PROMPT(join_context(user_batches[i]),
                                                  user_question))})

Finished(ts) == StOf(ts, "done") \cup StOf(ts, "failed") \cup StOf(ts, "cancelled")

\* main() has resumed from the gather with the list of results.
PastBarrier == gather = "result" /\ pc # "awaiting"

\* The content the endpoint returned for the call of batch i.
ReplyTo(i) ==
  LET k == CHOOSE k \in 1..Len(arrival) : arrival[k].batch = i
  IN  arrival[k].content

\* C1: the Batcher splits a list of N users with batch size B into
\* ceil(N/B) batches, all of size B except possibly the last (1..B), whose
\* concatenation in order is the input list.
C1_BatcherPartition ==
  pc = "split" =>
    LET n == Len(db)
        k == Len(user_batches)
    IN  /\ users = db
        /\ k * batch_size >= n
        /\ (k > 0 => (k - 1) * batch_size < n)
        /\ \A i \in 1..(k - 1) : Len(user_batches[i]) = batch_size
        /\ (k > 0 => Len(user_batches[k]) \in 1..batch_size)
        /\ Flatten(user_batches) = db

C1_Witness ==
  /\ pc = "split"
  /\ Len(user_batches) >= 2
  /\ Len(user_batches[Len(user_batches)]) < batch_size
  /\ db[1] # db[2]

\* C2: past the join-all barrier the synthesis call is issued iff some
\* batch result, trimmed, differs from the sentinel; with only sentinel
\* results (whitespace around them or not) the "no users found" path is
\* taken; there is never more than one synthesis call.
C2_SynthesisIffMatch ==
  /\ SynthCalls <= 1
  /\ PastBarrier =>
       /\ (SynthCalls = 1) <=> (\E i \in Batches : NonSentinel(tasks[i].result))
       /\ Printed(NoUsersMessage) <=> (\A i \in Batches : IsSentinelText(tasks[i].result))
       /\ Printed(NoUsersMessage) <=> (SynthCalls = 0)

C2_Witness ==
  /\ PastBarrier
  /\ SynthCalls = 0
  /\ Printed(NoUsersMessage)
  /\ \E i \in Batches : tasks[i].result = <<" ", Sentinel, "\n">>
  /\ \E i \in Batches : tasks[i].result = <<Sentinel>>

\* C3: whatever the completion order, result i of the gather is the answer
\* to the call of batch i, and the synthesis call is fed the non-sentinel
\* results in batch order.
C3_PositionalResults ==
  PastBarrier =>
    LET positional == [i \in 1..Len(user_batches) |-> ReplyTo(i)]
        kept == SelectSeq(positional, NonSentinel)
    IN  /\ \A i \in Batches :
             tasks[i].user_message =
               USER_PROMPT(join_context(user_batches[i]), user_question)
        /\ batch_result = positional
        /\ filtered_results = kept
        /\ SynthCalls = 1 =>
             calls[Len(calls)].user_message =
               FinalPrompt(Join(<<"\n", "\n">>, kept), user_question)

C3_Witness ==
  /\ PastBarrier
  /\ SynthCalls = 1
  /\ Len(arrival) >= 3
  /\ arrival[1].batch > arrival[2].batch
  /\ Len(filtered_results) = 2
  /\ filtered_results[1] # filtered_results[2]
  /\ IsSentinelText(batch_result[2])

\* C4: the synthesis call is started only when every batch call has
\* returned successfully: none in flight, none failed.
C4_SynthesisAfterAllBatches ==
  SynthCalls > 0 =>
    /\ \A i \in Batches : tasks[i].st = "done"
    /\ Len(arrival) = Len(user_batches)

C4_Witness ==
  /\ SynthCalls = 1
  /\ Len(tasks) >= 3
  /\ pc = "final"

\* C5 as stated: main leaves the awaiting stage only when every batch call
\* has finished by itself, and no batch call is ever cancelled.
C5_WaitsForAllCalls ==
  /\ (pc # "awaiting" => \A i \in Batches : tasks[i].st \in {"done", "failed"})
  /\ StOf(tasks, "cancelled") = {}

\* C5 amended: main stays suspended until every batch call has returned
\* or one has failed; the first failure ends the wait at once (the gather
\* holds the exception as soon as a call fails, others may be in flight);
\* the gather cancels nothing while main waits; the calls still in flight
\* when the failure aborts the run are cancelled by the runtime's shutdown.
C5_FirstFailureEndsWait ==
  /\ (gather = "exception") <=> (StOf(tasks, "failed") # {})
  /\ (gather = "result") <=> (pc # "start" /\ fetched
                               /\ \A i \in Batches : tasks[i].st = "done")
  /\ pc \in {"final", "done"} /\ fetched => gather = "result"
  /\ pc = "error" /\ SynthCalls = 0 => gather = "exception"
  /\ pc = "awaiting" => StOf(tasks, "cancelled") = {}
  /\ pc = "error" => StOf(tasks, "inflight") = {}

C5_Witness ==
  /\ pc = "error"
  /\ StOf(tasks, "failed") # {}
  /\ StOf(tasks, "cancelled") # {}
  /\ StOf(tasks, "done") # {}

\* C6: once a batch call has failed the run never aggregates: no synthesis
\* call, no "no users found" message, no usage summary, no use of the
\* results of the batches that succeeded, no second call for any batch;
\* main is either still suspended or has ended with the error.
C6_FailureAbortsRun ==
  StOf(tasks, "failed") # {} =>
    /\ pc \in {"awaiting", "error"}
    /\ gather = "exception"
    /\ SynthCalls = 0
    /\ ~Printed(NoUsersMessage)
    /\ ~Printed(SummaryMessage)
    /\ batch_result = <<>>
    /\ filtered_results = <<>>
    /\ Len(calls) = Len(tasks)

C6_Witness ==
  /\ pc = "error"
  /\ StOf(tasks, "failed") # {}
  /\ \E i \in StOf(tasks, "done") : NonSentinel(tasks[i].result)
  /\ StOf(tasks, "cancelled") = {}

\* C7: the tracker's total is the sum of its per-call list, the summary's
\* batch_count is the number of adds made so far, and the list holds the
\* added counts in the order of the adds; one add per returned call.
C7_TrackerConsistent ==
  /\ token_tracker.total_tokens = Sum(token_tracker.batch_tokens)
  /\ token_tracker.total_tokens = Sum(adds)
  /\ get_summary(token_tracker).batch_count = Len(adds)
  /\ get_summary(token_tracker).batch_tokens = adds
  /\ Len(adds) = Len(arrival) + (IF pc = "done" /\ SynthCalls = 1 THEN 1 ELSE 0)
  /\ \A k \in 1..Len(arrival) :
       \E r \in Responses : r.content = arrival[k].content /\ adds[k] = TokenUsage(r)

C7_Witness ==
  /\ adds = <<120, 80>>
  /\ token_tracker.total_tokens = 200
  /\ get_summary(token_tracker).batch_count = 2
  /\ token_tracker.batch_tokens = <<120, 80>>
  /\ arrival[1].batch > arrival[2].batch

\* C8: with an empty or all-whitespace query the run ends at once: no
\* fetch, no model call, tracker untouched, no message, no error.
C8_BlankQuerySkipsSearch ==
  pc # "start" /\ IsBlank(typed) =>
    /\ pc = "done"
    /\ user_question = <<>>
    /\ ~fetched
    /\ users = <<>> /\ user_batches = <<>> /\ tasks = <<>>
    /\ gather = "none"
    /\ calls = <<>>
    /\ token_tracker = NewTokenTracker /\ adds = <<>>
    /\ printed = <<>>

C8_Witness ==
  /\ pc = "done"
  /\ typed = <<" ", "\n">>
  /\ Len(db) >= 2
  /\ calls = <<>>

\* C9: the batch count of the printed usage summary is the number of
\* batches, and the per-batch token list has one entry per batch.
C9_SummaryCountsBatches ==
  Printed(SummaryMessage) =>
    /\ summary.batch_count = Len(user_batches)
    /\ Len(summary.batch_tokens) = Len(user_batches)

\* C10: one model call per batch, never repeated or skipped, none for an
\* empty user list; every call is launched before any call finishes, so
\* no call waits for another and all N are in flight together.
C10_OneCallPerBatchAllAtOnce ==
  /\ tasks # <<>> => Len(tasks) = Len(user_batches)
  /\ \A i \in Batches :
       BatchCallsFor(i) = (IF tasks[i].st = "scheduled" THEN 0 ELSE 1)
  /\ Len(calls) - SynthCalls = Cardinality(Batches \ StOf(tasks, "scheduled"))
  /\ Finished(tasks) # {} => StOf(tasks, "scheduled") = {}
  /\ pc \in {"final", "done", "error"} /\ fetched =>
       \A i \in 1..Len(user_batches) : BatchCallsFor(i) = 1
  /\ fetched /\ db = <<>> => calls = <<>>

C10_Witness ==
  /\ Len(tasks) >= 3
  /\ StOf(tasks, "inflight") = Batches
  /\ Len(calls) = Len(tasks)
====
